---- MODULE Spec2Model ----
(***************************************************************************)
(* Session and server lifecycle of proton-webdav-bridge (src/main.go).     *)
(*                                                                         *)
(* Every goroutine of the program is a task with a program counter: the    *)
(* startup sequence (doListen), the control-API handlers handleLogin and   *)
(* handleLogout, every startWebDAVServer goroutine, the serve goroutine it *)
(* spawns and the OnTokensExpired callback of the session it creates.  A   *)
(* step of a task is one access to a shared object (the AuthStatus record, *)
(* the token file, webdavServer, webdavCancel, webdavMutex, an             *)
(* http.Server).  The OnTokensUpdated callback is a single step.           *)
(*                                                                         *)
(* The admin authentication of the control API (AdminAuth, the password    *)
(* file, the handlers under /api/admin/ and the gate withAdminAuth) shares *)
(* no variable with the file-server side and has a specification of its    *)
(* own, AdminSpec; Spec and FairSpec are the file-server side.  AdminSpec *)
(* begins with doListen's reset and initialisation of the admin side.      *)
(*                                                                         *)
(* How doLogin resolves the four credentials from the environment or the   *)
(* standard input (getCredential, canAutoLogin) is followed call by call   *)
(* in a third specification, CredSpec.                                     *)
(*                                                                         *)
(* In Spec and AdminSpec the critical sections of authStatus.mu and        *)
(* adminAuth.mu are single steps.  Which mutex a goroutine holds when it   *)
(* calls Lock is followed call by call in a fourth specification,          *)
(* LockSpec, over the Lock and Unlock calls of each code path.             *)
(***************************************************************************)
EXTENDS Integers, FiniteSets, Sequences, TLC

\* Sessions (calls of startWebDAVServer) the model follows.
MaxSess == 3
\* Login requests to the control API (handleLogin) the model follows.
MaxLogins == 1
\* Logout requests the model follows.
MaxLogouts == 1
\* Firings of the OnTokensExpired callback the model follows.
MaxExpired == 1
\* Firings of the OnTokensUpdated callback the model follows.
MaxUpdated == 1

Sess == 1..MaxSess
Logouts == 1..MaxLogouts

\* time.Time{} of a LastLogin that was never set
ZeroTime == 0
\* drive.Tokens.AccessToken == ""
EmptyAccess == 0
\* the access token of a token file written by an earlier run of the process
PriorAccess == MaxSess + 1
\* a nil *http.Server, a nil context.CancelFunc
Nil == 0

Main == <<"main", 0>>
LoginT(s) == <<"login", s>>
StartT(s) == <<"start", s>>
ServeT(s) == <<"serve", s>>
ExpiredT(s) == <<"expired", s>>
LogoutT(k) == <<"logout", k>>
NoTask == <<"none", 0>>

Tasks ==
  {Main} \cup {LoginT(s) : s \in Sess} \cup {StartT(s) : s \in Sess}
         \cup {ServeT(s) : s \in Sess} \cup {ExpiredT(s) : s \in Sess}
         \cup {LogoutT(k) : k \in Logouts}

Kind(t) == t[1]

VARIABLES
  authStatus,    \* the AuthStatus singleton
  tokenFile,     \* the file TokenFile under the data directory
  webdavServer,  \* the global *http.Server: Nil or the instance of a session
  webdavCancel,  \* the global cancel function: Nil or the session it cancels
  webdavMutex,   \* the task that holds webdavMutex, or NoTask
  cancelled,     \* the sessions whose context has been cancelled
  inst,          \* the http.Server each session created: its state
  instTok,       \* the access token each session was logged in with
  pc,            \* the position of every task
  network,       \* whether WaitNetwork finds the network usable
  autoLogin,     \* canAutoLogin(): PROTON_USERNAME and PROTON_PASSWORD are set
  panicked,      \* a nil pointer dereference has ended the process
  nextSess,      \* the next session to be created
  nLogin,        \* login requests handled so far
  nExpired,      \* firings of OnTokensExpired so far
  nUpdated,      \* firings of OnTokensUpdated so far
  lastDone       \* the last of: a login or resume that succeeded ("login"),
                 \* a logout that completed, an expiry the backend reported

\* The admin authentication of the control API (AdminAuth, lines 58-65, and
\* the handlers of lines 513-735).
VARIABLES
  adminAuth,     \* the AdminAuth singleton
  adminFile,     \* the file AdminPasswordFile under the data directory
  clock,         \* time.Now()
  req,           \* the requests to the admin endpoints: position and locals
  nextToken      \* the next value generateSessionToken returns

serverVars ==
  <<authStatus, tokenFile, webdavServer, webdavCancel, webdavMutex,
    cancelled, inst, instTok, pc, network, autoLogin, panicked,
    nextSess, nLogin, nExpired, nUpdated, lastDone>>

adminVars == <<adminAuth, adminFile, clock, req, nextToken>>

VARIABLES
  env,           \* the process environment, as far as the PROTON_ variables go
  stdin,         \* what reading the standard input gives
  cpc,           \* where doListen stands with its automatic login
  cred,          \* the credentials doLogin has resolved so far
  prompted       \* the variables getCredential asked the user for

credVars == <<env, stdin, cpc, cred, prompted>>

(***************************************************************************)
(* The three mutexes of the program: webdavMutex (line 41), authStatus.mu  *)
(* and adminAuth.mu (lines 55 and 64), and how far each goroutine has come *)
(* in the Lock and Unlock calls of its code path.                          *)
(***************************************************************************)
VARIABLES
  owner,         \* the goroutine that holds each mutex, or NoOwner
  at             \* the next Lock or Unlock call of each goroutine

lockVars == <<owner, at>>

vars == <<serverVars, adminVars, credVars, lockVars>>

Status(l, t, n, e) ==
  [loggedIn |-> l, lastLogin |-> t, needsLogin |-> n, error |-> e]

\* time.Now(): later than every time recorded so far
Now == authStatus.lastLogin + 1

\* The token file: absent, not parseable, or the JSON of a drive.Tokens.
\* `access` names the login the access token descends from; `renewed` tells
\* the tokens the backend issued on a refresh from those the login returned.
NoFile == [state |-> "absent", access |-> EmptyAccess, renewed |-> FALSE]
CorruptFile == [state |-> "corrupt", access |-> EmptyAccess, renewed |-> FALSE]
TokensOf(a) == [state |-> "ok", access |-> a, renewed |-> FALSE]
RenewedOf(a) == [state |-> "ok", access |-> a, renewed |-> TRUE]

\* loadTokens: an error when the file is missing or does not parse
loadTokens(f) ==
  [err |-> f.state # "ok",
   access |-> IF f.state = "ok" THEN f.access ELSE EmptyAccess]

Listening(i) == inst[i] = "listening"
PortFree == \A i \in Sess : ~Listening(i)

TypeOK ==
  /\ authStatus \in [loggedIn : BOOLEAN, lastLogin : 0..(MaxSess + 1),
                     needsLogin : BOOLEAN,
                     error : {"", "rejected", "Tokens expired",
                              "No valid tokens found"}]
  /\ webdavServer \in Sess \cup {Nil}
  /\ webdavCancel \in Sess \cup {Nil}
  /\ webdavMutex \in Tasks \cup {NoTask}
  /\ cancelled \subseteq Sess
  /\ inst \in [Sess -> {"none", "new", "failed", "listening", "closed"}]
  /\ pc \in [Tasks -> STRING]
  /\ nextSess \in 1..(MaxSess + 1)

ServerInit ==
  /\ authStatus = Status(FALSE, ZeroTime, FALSE, "")
  /\ tokenFile \in {NoFile, CorruptFile, TokensOf(EmptyAccess),
                    TokensOf(PriorAccess)}
  /\ webdavServer = Nil
  /\ webdavCancel = Nil
  /\ webdavMutex = NoTask
  /\ cancelled = {}
  /\ inst = [s \in Sess |-> "none"]
  /\ instTok = [s \in Sess |-> EmptyAccess]
  /\ pc = [t \in Tasks |-> IF t = Main THEN "load" ELSE "idle"]
  /\ network = FALSE
  /\ autoLogin \in BOOLEAN
  /\ panicked = FALSE
  /\ nextSess = 1
  /\ nLogin = 0
  /\ nExpired = 0
  /\ nUpdated = 0
  /\ lastDone = "none"

(***************************************************************************)
(* Admin authentication: the data.                                         *)
(***************************************************************************)
\* Requests the model follows, per admin endpoint and for the gate
\* withAdminAuth puts before /api/status, /api/login and /api/logout.
MaxSetups == 2
MaxAdminLogins == 1
MaxAdminLogouts == 2
MaxAdminStatus == 1
MaxGates == 1
\* The clock runs from 0 to MaxClock.
MaxClock == 2

\* 24 * time.Hour, the lifetime of a session: one unit of the clock
SessionTTL == 1
\* len(req.Password) < 8
MinPasswordLen == 8

\* A password is a string: a sequence of characters, each given by its code
\* point.  Go keeps a string as its UTF-8 bytes and len() counts those.
Utf8Len(c) == IF c < 128 THEN 1 ELSE IF c < 2048 THEN 2 ELSE 3
RECURSIVE ByteLen(_)
ByteLen(str) == IF str = << >> THEN 0 ELSE Utf8Len(Head(str)) + ByteLen(Tail(str))

PwShort == <<1, 2, 3, 4, 5, 6, 7>>
PwA == <<1, 2, 3, 4, 5, 6, 7, 8>>
\* four characters of two bytes each
PwWide == <<1000, 1001, 1002, 1003>>
Passwords == {PwShort, PwA, PwWide}

\* generateSalt: 16 random bytes in base64, all of one length and taken never
\* to repeat: the salt of the k-th setup request, and that of an earlier run
generateSalt(k) == <<100 + k>>
PriorSalt == <<100>>

\* hashPassword: the SHA-256 digest of password + salt.  SHA-256 is taken to
\* be injective, so a digest is identified with the bytes that were hashed.
hashPassword(password, salt) == password \o salt

\* generateSessionToken: 32 random bytes, taken never to repeat
Tokens == 1..(MaxSetups + MaxAdminLogins)
\* a request without the admin_session cookie
NoCookie == 0
\* a cookie value the server never issued
Forged == MaxSetups + MaxAdminLogins + 1
\* a key that is not in the sessions map
NoSession == -1

NoAdminFile == [state |-> "absent", hash |-> << >>, salt |-> << >>]
AdminPasswordData(h, sl) == [state |-> "ok", hash |-> h, salt |-> sl]

\* loadAdminPassword: an error when the file is missing or does not parse
loadAdminPassword(f) ==
  [err |-> f.state # "ok", hash |-> f.hash, salt |-> f.salt]

\* initAdminAuth: the AdminAuth a process starts with
initAdminAuth(f) ==
  LET data == loadAdminPassword(f)
  IN  [initialized |-> ~data.err,
       passwordHash |-> IF data.err THEN << >> ELSE data.hash,
       salt |-> IF data.err THEN << >> ELSE data.salt,
       sessions |-> [t \in Tokens |-> NoSession]]

SetupT(k) == <<"setup", k>>
AdminLoginT(k) == <<"adminlogin", k>>
AdminLogoutT(k) == <<"adminlogout", k>>
AdminStatusT(k) == <<"adminstatus", k>>
GateT(k) == <<"gate", k>>
\* doListen, as far as it starts the admin subsystem
AdminMainT == <<"adminmain", 0>>

AdminTasks ==
  {SetupT(k) : k \in 1..MaxSetups}
    \cup {AdminLoginT(k) : k \in 1..MaxAdminLogins}
    \cup {AdminLogoutT(k) : k \in 1..MaxAdminLogouts}
    \cup {AdminStatusT(k) : k \in 1..MaxAdminStatus}
    \cup {GateT(k) : k \in 1..MaxGates}
    \cup {AdminMainT}

\* A request: its position (or its response, once it has one), the digest and
\* salt a setup computed, the cookie it presented or was issued.
IdleReq == [pc |-> "idle", hash |-> << >>, salt |-> << >>, cookie |-> NoCookie]

\* doListen, lines 198-208: the admin server starts after initAdminAuth.
AdminBoot(f) ==
  /\ adminFile = f
  /\ adminAuth = initAdminAuth(f)
  /\ clock = 0
  /\ req = [t \in AdminTasks |->
              IF t = AdminMainT THEN [IdleReq EXCEPT !.pc = "serving"]
              ELSE IdleReq]
  /\ nextToken = 1

(***************************************************************************)
(* Credentials: the data.                                                  *)
(***************************************************************************)
EnvVars ==
  <<"PROTON_USERNAME", "PROTON_PASSWORD", "PROTON_MAILBOX_PASSWORD",
    "PROTON_2FA">>
Required == {"PROTON_USERNAME", "PROTON_PASSWORD"}
Optional == {"PROTON_MAILBOX_PASSWORD", "PROTON_2FA"}
\* the prompts of doLogin that mask the input (the two passwords)
Masked == {"PROTON_PASSWORD", "PROTON_MAILBOX_PASSWORD"}

\* os.Getenv gives "" for a variable that is not set
Unset == ""
EnvValues == {Unset, "false", "secret"}

\* The standard input: closed (a container started without -i), open with
\* nobody typing, or a user who answers each prompt with a value or with
\* enter alone.
StdinKinds == {"eof", "silent", "typed", "enter"}

\* The credential side when doLogin's resolution is not followed step by
\* step: the variables are all there or all missing, as canAutoLogin says.
CredAtRest ==
  /\ env = [v \in Required \cup Optional |->
              IF autoLogin THEN "secret" ELSE Unset]
  /\ stdin = "eof"
  /\ cpc = "start"
  /\ cred = << >>
  /\ prompted = {}

(***************************************************************************)
(* The Lock and Unlock calls of the program, per goroutine, in the order   *)
(* of its code path and with their source lines.                           *)
(***************************************************************************)
LockNames == {"webdavMutex", "authStatus.mu", "adminAuth.mu"}
NoOwner == "none"

LockCall(mu, line) == [op |-> "Lock", mu |-> mu, line |-> line]
UnlockCall(mu, line) == [op |-> "Unlock", mu |-> mu, line |-> line]

\* withAdminAuth (lines 513-545) in front of a control-API handler, for a
\* request that carries a session cookie
GateCalls ==
  <<LockCall("adminAuth.mu", 516), UnlockCall("adminAuth.mu", 518),
    LockCall("adminAuth.mu", 533), UnlockCall("adminAuth.mu", 535)>>

Goroutines ==
  {"start", "startExpired", "expired", "logout", "status", "setup", "listen"}

\* LockOps with a handleLogout that records the status before it lets go of
\* webdavMutex.
LockOpsLogoutNested(g) ==
  CASE g = "start" ->
         <<LockCall("webdavMutex", 366), UnlockCall("webdavMutex", 367)>>
    [] g = "startExpired" ->
         <<LockCall("webdavMutex", 366),
           LockCall("authStatus.mu", 404), UnlockCall("authStatus.mu", 408),
           LockCall("authStatus.mu", 164), UnlockCall("authStatus.mu", 168),
           UnlockCall("webdavMutex", 367)>>
    [] g = "expired" ->
         <<LockCall("authStatus.mu", 404), UnlockCall("authStatus.mu", 408),
           LockCall("authStatus.mu", 177), UnlockCall("authStatus.mu", 182)>>
    [] g = "logout" ->
         GateCalls \o
         <<LockCall("webdavMutex", 779),
           LockCall("authStatus.mu", 791), UnlockCall("authStatus.mu", 795),
           UnlockCall("webdavMutex", 783)>>
    [] g = "status" ->
         <<LockCall("adminAuth.mu", 516), UnlockCall("adminAuth.mu", 518),
           LockCall("authStatus.mu", 740), UnlockCall("authStatus.mu", 741)>>
    [] g = "setup" ->
         <<LockCall("adminAuth.mu", 571), UnlockCall("adminAuth.mu", 573),
           LockCall("adminAuth.mu", 615), UnlockCall("adminAuth.mu", 619),
           LockCall("adminAuth.mu", 630), UnlockCall("adminAuth.mu", 632)>>
    [] g = "listen" ->
         <<LockCall("adminAuth.mu", 286), UnlockCall("adminAuth.mu", 291),
           LockCall("adminAuth.mu", 257), UnlockCall("adminAuth.mu", 258),
           LockCall("authStatus.mu", 214), UnlockCall("authStatus.mu", 218)>>

\* "start": startWebDAVServer with no callback during session.Init.
\* "startExpired": startWebDAVServer when the backend calls OnTokensExpired
\*   from inside session.Init (line 425), on the goroutine that holds
\*   webdavMutex; the callback's doLogin is rejected (164-168).
\* "expired": OnTokensExpired on a goroutine of the backend; its doLogin
\*   succeeds (177-182).
\* "logout", "status": handleLogout and handleStatus behind withAdminAuth
\*   (status with no admin password set: the gate returns after line 518).
\* "setup": handleAdminSetup.
\* "listen": doListen with ADMIN_PASSWORD_RESET and no token file.
LockOps(g) ==
  CASE g = "start" ->
         <<LockCall("webdavMutex", 366), UnlockCall("webdavMutex", 367)>>
    [] g = "startExpired" ->
         <<LockCall("webdavMutex", 366),
           LockCall("authStatus.mu", 404), UnlockCall("authStatus.mu", 408),
           LockCall("authStatus.mu", 164), UnlockCall("authStatus.mu", 168),
           UnlockCall("webdavMutex", 367)>>
    [] g = "expired" ->
         <<LockCall("authStatus.mu", 404), UnlockCall("authStatus.mu", 408),
           LockCall("authStatus.mu", 177), UnlockCall("authStatus.mu", 182)>>
    [] g = "logout" ->
         GateCalls \o
         <<LockCall("webdavMutex", 779), UnlockCall("webdavMutex", 783),
           LockCall("authStatus.mu", 791), UnlockCall("authStatus.mu", 795)>>
    [] g = "status" ->
         <<LockCall("adminAuth.mu", 516), UnlockCall("adminAuth.mu", 518),
           LockCall("authStatus.mu", 740), UnlockCall("authStatus.mu", 741)>>
    [] g = "setup" ->
         <<LockCall("adminAuth.mu", 571), UnlockCall("adminAuth.mu", 573),
           LockCall("adminAuth.mu", 615), UnlockCall("adminAuth.mu", 619),
           LockCall("adminAuth.mu", 630), UnlockCall("adminAuth.mu", 632)>>
    [] g = "listen" ->
         <<LockCall("adminAuth.mu", 286), UnlockCall("adminAuth.mu", 291),
           LockCall("adminAuth.mu", 257), UnlockCall("adminAuth.mu", 258),
           LockCall("authStatus.mu", 214), UnlockCall("authStatus.mu", 218)>>

\* No mutex is held and every goroutine is before its first Lock.
LocksAtRest ==
  /\ owner = [mu \in LockNames |-> NoOwner]
  /\ at = [g \in Goroutines |-> 1]

\* The file-server and session side, started with no admin credential.
Init == ServerInit /\ AdminBoot(NoAdminFile) /\ CredAtRest /\ LocksAtRest

SetPc(t, p) == pc' = [pc EXCEPT ![t] = p]

(***************************************************************************)
(* A nil pointer dereference (a method called on a nil *http.Server) is a  *)
(* run-time panic no task recovers: the process ends and the operating     *)
(* system closes its sockets.                                              *)
(***************************************************************************)
Panic ==
  /\ panicked' = TRUE
  /\ inst' = [i \in Sess |-> IF Listening(i) THEN "closed" ELSE inst[i]]
  /\ UNCHANGED <<authStatus, tokenFile, webdavServer, webdavCancel,
                 webdavMutex, cancelled, instTok, pc, network, autoLogin,
                 nextSess, nLogin, nExpired, nUpdated, lastDone>>

\* WaitNetwork returns once the network path to the backend is usable.
NetworkUp ==
  /\ ~panicked
  /\ UNCHANGED <<adminVars, credVars, lockVars>>
  /\ ~network
  /\ network' = TRUE
  /\ UNCHANGED <<authStatus, tokenFile, webdavServer, webdavCancel,
                 webdavMutex, cancelled, inst, instTok, pc, autoLogin,
                 panicked, nextSess, nLogin, nExpired, nUpdated, lastDone>>

(***************************************************************************)
(* loginWithCredentials.  Its callers are handleLogin (a request, which has *)
(* no task before the call: NoTask), doListen (Main at "autologin") and    *)
(* the OnTokensExpired callback (ExpiredT(s) at "relogin", through         *)
(* doLogin).                                                               *)
(***************************************************************************)
CanLogin(c) ==
  \/ c = NoTask /\ nLogin < MaxLogins
  \/ c = Main /\ pc[Main] = "autologin"
  \/ Kind(c) = "expired" /\ pc[c] = "relogin" /\ autoLogin

CallerDone(c) ==
  /\ nLogin' = IF c = NoTask THEN nLogin + 1 ELSE nLogin
  /\ UNCHANGED lastDone

\* LoginReject with the failure path also dropping the persisted tokens.
LoginRejectDropsTokens(c) ==
  /\ ~panicked
  /\ UNCHANGED <<adminVars, credVars, lockVars>>
  /\ CanLogin(c)
  /\ authStatus' = Status(FALSE, authStatus.lastLogin, TRUE, "rejected")
  /\ tokenFile' = NoFile
  /\ pc' = IF c = NoTask THEN pc ELSE [pc EXCEPT ![c] = "done"]
  /\ CallerDone(c)
  /\ UNCHANGED <<webdavServer, webdavCancel, webdavMutex, cancelled, inst,
                 instTok, network, autoLogin, panicked, nextSess, nExpired, nUpdated>>

\* app.LoginWithCredentials fails: lines 163-170.
LoginReject(c) ==
  /\ ~panicked
  /\ UNCHANGED <<adminVars, credVars, lockVars>>
  /\ CanLogin(c)
  /\ authStatus' = Status(FALSE, authStatus.lastLogin, TRUE, "rejected")
  /\ pc' = IF c = NoTask THEN pc ELSE [pc EXCEPT ![c] = "done"]
  /\ CallerDone(c)
  /\ UNCHANGED <<tokenFile, webdavServer, webdavCancel, webdavMutex,
                 cancelled, inst, instTok, network, autoLogin, panicked,
                 nextSess, nExpired, nUpdated>>

\* app.LoginWithCredentials succeeds and storeTokens fails: lines 172-175.
LoginStoreFail(c) ==
  /\ ~panicked
  /\ UNCHANGED <<adminVars, credVars, lockVars>>
  /\ CanLogin(c)
  /\ pc' = IF c = NoTask THEN pc ELSE [pc EXCEPT ![c] = "done"]
  /\ CallerDone(c)
  /\ UNCHANGED <<authStatus, tokenFile, webdavServer, webdavCancel,
                 webdavMutex, cancelled, inst, instTok, network, autoLogin,
                 panicked, nextSess, nExpired, nUpdated>>

\* LoginStore with the server start triggered before the status is recorded.
LoginStoreStartsServer(c) ==
  /\ ~panicked
  /\ UNCHANGED <<adminVars, credVars, lockVars>>
  /\ CanLogin(c)
  /\ nextSess <= MaxSess
  /\ tokenFile' = TokensOf(nextSess)
  /\ pc' = IF c = NoTask
             THEN [pc EXCEPT ![LoginT(nextSess)] = "status",
                             ![StartT(nextSess)] = "lock"]
             ELSE [pc EXCEPT ![LoginT(nextSess)] = "status",
                             ![StartT(nextSess)] = "lock", ![c] = "done"]
  /\ nextSess' = nextSess + 1
  /\ nLogin' = IF c = NoTask THEN nLogin + 1 ELSE nLogin
  /\ UNCHANGED <<authStatus, webdavServer, webdavCancel, webdavMutex,
                 cancelled, inst, instTok, network, autoLogin, panicked,
                 nExpired, nUpdated, lastDone>>

\* app.LoginWithCredentials succeeds and storeTokens writes the new tokens:
\* line 172.  The call goes on as the task LoginT of the session it will start.
LoginStore(c) ==
  /\ ~panicked
  /\ UNCHANGED <<adminVars, credVars, lockVars>>
  /\ CanLogin(c)
  /\ nextSess <= MaxSess
  /\ tokenFile' = TokensOf(nextSess)
  /\ pc' = IF c = NoTask
             THEN [pc EXCEPT ![LoginT(nextSess)] = "status"]
             ELSE [pc EXCEPT ![LoginT(nextSess)] = "status", ![c] = "done"]
  /\ nextSess' = nextSess + 1
  /\ nLogin' = IF c = NoTask THEN nLogin + 1 ELSE nLogin
  /\ UNCHANGED <<authStatus, webdavServer, webdavCancel, webdavMutex,
                 cancelled, inst, instTok, network, autoLogin, panicked,
                 nExpired, nUpdated, lastDone>>

\* lines 177-189: the status is set, `go startWebDAVServer()`, return nil.
LoginStatus(s) ==
  /\ ~panicked
  /\ UNCHANGED <<adminVars, credVars, lockVars>>
  /\ pc[LoginT(s)] = "status"
  /\ authStatus' = Status(TRUE, Now, FALSE, "")
  /\ pc' = [pc EXCEPT ![LoginT(s)] = "done", ![StartT(s)] = "lock"]
  /\ lastDone' = "login"
  /\ UNCHANGED <<tokenFile, webdavServer, webdavCancel, webdavMutex,
                 cancelled, inst, instTok, network, autoLogin, panicked,
                 nextSess, nLogin, nExpired, nUpdated>>

(***************************************************************************)
(* doListen, from loadTokens on (lines 210-252).                           *)
(***************************************************************************)
MainLoad ==
  /\ ~panicked
  /\ UNCHANGED <<adminVars, credVars, lockVars>>
  /\ pc[Main] = "load"
  /\ LET r == loadTokens(tokenFile)
     IN  SetPc(Main, IF r.err THEN "status_err"
                     ELSE IF r.access # EmptyAccess THEN "status_ok"
                     ELSE "done")
  /\ UNCHANGED <<authStatus, tokenFile, webdavServer, webdavCancel,
                 webdavMutex, cancelled, inst, instTok, network, autoLogin,
                 panicked, nextSess, nLogin, nExpired, nUpdated, lastDone>>

\* MainStatusErr with the status left as it was.
MainStatusErrKeepsStatus ==
  /\ ~panicked
  /\ UNCHANGED <<adminVars, credVars, lockVars>>
  /\ pc[Main] = "status_err"
  /\ SetPc(Main, IF autoLogin THEN "autologin" ELSE "done")
  /\ UNCHANGED <<authStatus, tokenFile, webdavServer, webdavCancel,
                 webdavMutex, cancelled, inst, instTok, network, autoLogin,
                 panicked, nextSess, nLogin, nExpired, nUpdated, lastDone>>

\* lines 213-237
MainStatusErr ==
  /\ ~panicked
  /\ UNCHANGED <<adminVars, credVars, lockVars>>
  /\ pc[Main] = "status_err"
  /\ authStatus' =
       Status(FALSE, authStatus.lastLogin, TRUE, "No valid tokens found")
  /\ SetPc(Main, IF autoLogin THEN "autologin" ELSE "done")
  /\ UNCHANGED <<tokenFile, webdavServer, webdavCancel, webdavMutex,
                 cancelled, inst, instTok, network, autoLogin, panicked,
                 nextSess, nLogin, nExpired, nUpdated, lastDone>>

\* MainStatusOk with NeedsLogin left as it was.
MainStatusOkKeepsNeedsLogin ==
  /\ ~panicked
  /\ UNCHANGED <<adminVars, credVars, lockVars>>
  /\ pc[Main] = "status_ok"
  /\ nextSess <= MaxSess
  /\ authStatus' = [authStatus EXCEPT !.loggedIn = TRUE, !.lastLogin = Now]
  /\ pc' = [pc EXCEPT ![Main] = "done", ![StartT(nextSess)] = "lock"]
  /\ nextSess' = nextSess + 1
  /\ lastDone' = "login"
  /\ UNCHANGED <<tokenFile, webdavServer, webdavCancel, webdavMutex,
                 cancelled, inst, instTok, network, autoLogin, panicked,
                 nLogin, nExpired, nUpdated>>

\* lines 238-248
MainStatusOk ==
  /\ ~panicked
  /\ UNCHANGED <<adminVars, credVars, lockVars>>
  /\ pc[Main] = "status_ok"
  /\ nextSess <= MaxSess
  /\ authStatus' = [authStatus EXCEPT !.loggedIn = TRUE, !.lastLogin = Now,
                                      !.needsLogin = FALSE]
  /\ pc' = [pc EXCEPT ![Main] = "done", ![StartT(nextSess)] = "lock"]
  /\ nextSess' = nextSess + 1
  /\ lastDone' = "login"
  /\ UNCHANGED <<tokenFile, webdavServer, webdavCancel, webdavMutex,
                 cancelled, inst, instTok, network, autoLogin, panicked,
                 nLogin, nExpired, nUpdated>>

(***************************************************************************)
(* stopWebDAVServer (lines 452-475), called by startWebDAVServer and       *)
(* handleLogout with webdavMutex held and by the OnTokensExpired callback  *)
(* without it.  The nil check of line 453 is the step that enters it.      *)
(***************************************************************************)
AfterStop(t) ==
  CASE Kind(t) = "start" -> "load"
    [] Kind(t) = "logout" -> "remove"
    [] Kind(t) = "expired" -> "relogin"

\* `defer`/explicit Unlock of the caller that ends with the stop: handleLogout
Unlocks(t) == Kind(t) = "logout"

\* lines 460-462: webdavCancel() when it is not nil
StopCancel(t) ==
  /\ ~panicked
  /\ UNCHANGED <<adminVars, credVars, lockVars>>
  /\ pc[t] = "stop_cancel"
  /\ cancelled' = IF webdavCancel # Nil THEN cancelled \cup {webdavCancel}
                  ELSE cancelled
  /\ SetPc(t, "stop_shutdown")
  /\ UNCHANGED <<authStatus, tokenFile, webdavServer, webdavCancel,
                 webdavMutex, inst, instTok, network, autoLogin, panicked,
                 nextSess, nLogin, nExpired, nUpdated, lastDone>>

\* line 468: webdavServer.Shutdown(ctx) closes the listener of the server the
\* global names now; its error is only logged.
StopShutdown(t) ==
  /\ ~panicked
  /\ UNCHANGED <<adminVars, credVars, lockVars>>
  /\ pc[t] = "stop_shutdown"
  /\ IF webdavServer = Nil
       THEN Panic
       ELSE /\ inst' = [inst EXCEPT ![webdavServer] = "closed"]
            /\ SetPc(t, "stop_nil")
            /\ UNCHANGED <<authStatus, tokenFile, webdavServer, webdavCancel,
                           webdavMutex, cancelled, instTok, network,
                           autoLogin, panicked, nextSess, nLogin, nExpired, nUpdated,
                           lastDone>>

\* StopNil leaving the handle as it is.
StopNilKeepsHandle(t) ==
  /\ ~panicked
  /\ UNCHANGED <<adminVars, credVars, lockVars>>
  /\ pc[t] = "stop_nil"
  /\ SetPc(t, AfterStop(t))
  /\ webdavMutex' = IF Unlocks(t) THEN NoTask ELSE webdavMutex
  /\ UNCHANGED <<authStatus, tokenFile, webdavServer, webdavCancel, cancelled,
                 inst, instTok, network, autoLogin, panicked, nextSess, nLogin,
                 nExpired, nUpdated, lastDone>>

\* line 473: webdavServer = nil
StopNil(t) ==
  /\ ~panicked
  /\ UNCHANGED <<adminVars, credVars, lockVars>>
  /\ pc[t] = "stop_nil"
  /\ webdavServer' = Nil
  /\ SetPc(t, AfterStop(t))
  /\ webdavMutex' = IF Unlocks(t) THEN NoTask ELSE webdavMutex
  /\ UNCHANGED <<authStatus, tokenFile, webdavCancel, cancelled, inst,
                 instTok, network, autoLogin, panicked, nextSess, nLogin,
                 nExpired, nUpdated, lastDone>>

(***************************************************************************)
(* startWebDAVServer (lines 365-449) of session s.                         *)
(***************************************************************************)
\* StartLock without the stop of a server that is running.
StartLockSkipsStop(s) ==
  /\ ~panicked
  /\ UNCHANGED <<adminVars, credVars, lockVars>>
  /\ pc[StartT(s)] = "lock"
  /\ webdavMutex = NoTask
  /\ webdavMutex' = StartT(s)
  /\ SetPc(StartT(s), "load")
  /\ UNCHANGED <<authStatus, tokenFile, webdavServer, webdavCancel,
                 cancelled, inst, instTok, network, autoLogin, panicked,
                 nextSess, nLogin, nExpired, nUpdated, lastDone>>

\* lines 366-372: Lock, and the stop of a server that is running
StartLock(s) ==
  /\ ~panicked
  /\ UNCHANGED <<adminVars, credVars, lockVars>>
  /\ pc[StartT(s)] = "lock"
  /\ webdavMutex = NoTask
  /\ webdavMutex' = StartT(s)
  /\ SetPc(StartT(s), IF webdavServer # Nil THEN "stop_cancel" ELSE "load")
  /\ UNCHANGED <<authStatus, tokenFile, webdavServer, webdavCancel,
                 cancelled, inst, instTok, network, autoLogin, panicked,
                 nextSess, nLogin, nExpired, nUpdated, lastDone>>

\* lines 374-378
StartLoad(s) ==
  /\ ~panicked
  /\ UNCHANGED <<adminVars, credVars, lockVars>>
  /\ pc[StartT(s)] = "load"
  /\ LET r == loadTokens(tokenFile)
     IN  IF r.err
           THEN /\ SetPc(StartT(s), "done")
                /\ webdavMutex' = NoTask
                /\ UNCHANGED instTok
           ELSE /\ SetPc(StartT(s), "wait")
                /\ instTok' = [instTok EXCEPT ![s] = r.access]
                /\ UNCHANGED webdavMutex
  /\ UNCHANGED <<authStatus, tokenFile, webdavServer, webdavCancel,
                 cancelled, inst, network, autoLogin, panicked, nextSess,
                 nLogin, nExpired, nUpdated, lastDone>>

\* lines 380-421: WaitNetwork returns, the context is created and the
\* callbacks of the session are registered
StartCtx(s) ==
  /\ ~panicked
  /\ UNCHANGED <<adminVars, credVars, lockVars>>
  /\ pc[StartT(s)] = "wait"
  /\ network
  /\ webdavCancel' = s
  /\ SetPc(StartT(s), "init")
  /\ UNCHANGED <<authStatus, tokenFile, webdavServer, webdavMutex,
                 cancelled, inst, instTok, network, autoLogin, panicked,
                 nextSess, nLogin, nExpired, nUpdated, lastDone>>

\* lines 423-429: session.Init
StartInit(s, ok) ==
  /\ ~panicked
  /\ UNCHANGED <<adminVars, credVars, lockVars>>
  /\ pc[StartT(s)] = "init"
  /\ SetPc(StartT(s), IF ok THEN "handle" ELSE "done")
  /\ webdavMutex' = IF ok THEN webdavMutex ELSE NoTask
  /\ UNCHANGED <<authStatus, tokenFile, webdavServer, webdavCancel,
                 cancelled, inst, instTok, network, autoLogin, panicked,
                 nextSess, nLogin, nExpired, nUpdated, lastDone>>

\* lines 434-449: the handle is set, the serve goroutine is spawned, Unlock
StartHandle(s) ==
  /\ ~panicked
  /\ UNCHANGED <<adminVars, credVars, lockVars>>
  /\ pc[StartT(s)] = "handle"
  /\ webdavServer' = s
  /\ inst' = [inst EXCEPT ![s] = "new"]
  /\ pc' = [pc EXCEPT ![StartT(s)] = "done", ![ServeT(s)] = "listen"]
  /\ webdavMutex' = NoTask
  /\ UNCHANGED <<authStatus, tokenFile, webdavCancel, cancelled, instTok,
                 network, autoLogin, panicked, nextSess, nLogin, nExpired, nUpdated, lastDone>>

(***************************************************************************)
(* The serve goroutine (lines 443-448) calls ListenAndServe on the server  *)
(* the global webdavServer names when it runs.  A server that was shut     *)
(* down returns ErrServerClosed; the bind fails when the address is in use *)
(* (by a server of this process or by anything else: `free`).              *)
(***************************************************************************)
\* ListenAndServe with every server bound to an address of its own.
ListenAndServeOwnAddr(i, free) ==
  CASE inst[i] = "closed" -> inst
    [] inst[i] = "listening" -> inst
    [] OTHER -> [inst EXCEPT ![i] = IF free THEN "listening" ELSE "failed"]

ListenAndServe(i, free) ==
  CASE inst[i] = "closed" -> inst
    [] inst[i] = "listening" -> inst
    [] OTHER -> [inst EXCEPT ![i] = IF free /\ PortFree THEN "listening"
                                    ELSE "failed"]

ServeListen(s, free) ==
  /\ ~panicked
  /\ UNCHANGED <<adminVars, credVars, lockVars>>
  /\ pc[ServeT(s)] = "listen"
  /\ IF webdavServer = Nil
       THEN Panic
       ELSE /\ inst' = ListenAndServe(webdavServer, free)
            /\ SetPc(ServeT(s), "done")
            /\ UNCHANGED <<authStatus, tokenFile, webdavServer, webdavCancel,
                           webdavMutex, cancelled, instTok, network,
                           autoLogin, panicked, nextSess, nLogin, nExpired, nUpdated,
                           lastDone>>

(***************************************************************************)
(* handleLogout (lines 772-800), request k.                                *)
(***************************************************************************)
\* lines 772-777: a POST /api/logout is dispatched to the handler
LogoutArrive(k) ==
  /\ ~panicked
  /\ UNCHANGED <<adminVars, credVars, lockVars>>
  /\ pc[LogoutT(k)] = "idle"
  /\ \A j \in Logouts : j < k => pc[LogoutT(j)] # "idle"
  /\ SetPc(LogoutT(k), "lock")
  /\ UNCHANGED <<authStatus, tokenFile, webdavServer, webdavCancel,
                 webdavMutex, cancelled, inst, instTok, network, autoLogin,
                 panicked, nextSess, nLogin, nExpired, nUpdated, lastDone>>

\* lines 779-783: Lock, the nil check, and Unlock when there is no server
LogoutLock(k) ==
  /\ ~panicked
  /\ UNCHANGED <<adminVars, credVars, lockVars>>
  /\ pc[LogoutT(k)] = "lock"
  /\ webdavMutex = NoTask
  /\ IF webdavServer # Nil
       THEN /\ webdavMutex' = LogoutT(k)
            /\ SetPc(LogoutT(k), "stop_cancel")
       ELSE /\ UNCHANGED webdavMutex
            /\ SetPc(LogoutT(k), "remove")
  /\ UNCHANGED <<authStatus, tokenFile, webdavServer, webdavCancel,
                 cancelled, inst, instTok, network, autoLogin, panicked,
                 nextSess, nLogin, nExpired, nUpdated, lastDone>>

\* lines 785-789
LogoutRemove(k) ==
  /\ ~panicked
  /\ UNCHANGED <<adminVars, credVars, lockVars>>
  /\ pc[LogoutT(k)] = "remove"
  /\ tokenFile' = NoFile
  /\ SetPc(LogoutT(k), "status")
  /\ UNCHANGED <<authStatus, webdavServer, webdavCancel, webdavMutex,
                 cancelled, inst, instTok, network, autoLogin, panicked,
                 nextSess, nLogin, nExpired, nUpdated, lastDone>>

\* lines 791-799
LogoutStatus(k) ==
  /\ ~panicked
  /\ UNCHANGED <<adminVars, credVars, lockVars>>
  /\ pc[LogoutT(k)] = "status"
  /\ authStatus' = Status(FALSE, authStatus.lastLogin, TRUE, "")
  /\ SetPc(LogoutT(k), "done")
  /\ lastDone' = "logout"
  /\ UNCHANGED <<tokenFile, webdavServer, webdavCancel, webdavMutex,
                 cancelled, inst, instTok, network, autoLogin, panicked,
                 nextSess, nLogin, nExpired, nUpdated>>

(***************************************************************************)
(* The OnTokensExpired callback of session s (lines 401-421).  The backend *)
(* may call it from the moment it is registered, on a goroutine of its     *)
(* own, for as long as the session has requests in flight.                 *)
(***************************************************************************)
Registered(s) ==
  \/ pc[StartT(s)] \in {"init", "handle"}
  \/ pc[StartT(s)] = "done" /\ inst[s] # "none"

\* lines 402-408
ExpiredFire(s) ==
  /\ ~panicked
  /\ UNCHANGED <<adminVars, credVars, lockVars>>
  /\ pc[ExpiredT(s)] = "idle"
  /\ nExpired < MaxExpired
  /\ Registered(s)
  /\ authStatus' =
       Status(FALSE, authStatus.lastLogin, TRUE, "Tokens expired")
  /\ SetPc(ExpiredT(s), "stop_check")
  /\ nExpired' = nExpired + 1
  /\ lastDone' = "expired"
  /\ UNCHANGED <<tokenFile, webdavServer, webdavCancel, webdavMutex,
                 cancelled, inst, instTok, network, autoLogin, panicked,
                 nextSess, nLogin, nUpdated>>

\* line 411 -> line 453: stopWebDAVServer is entered without the mutex
ExpiredStopCheck(s) ==
  /\ ~panicked
  /\ UNCHANGED <<adminVars, credVars, lockVars>>
  /\ pc[ExpiredT(s)] = "stop_check"
  /\ SetPc(ExpiredT(s), IF webdavServer = Nil THEN "relogin"
                        ELSE "stop_cancel")
  /\ UNCHANGED <<authStatus, tokenFile, webdavServer, webdavCancel,
                 webdavMutex, cancelled, inst, instTok, network, autoLogin,
                 panicked, nextSess, nLogin, nExpired, nUpdated, lastDone>>

\* lines 418-420: no credentials in the environment
ExpiredWait(s) ==
  /\ ~panicked
  /\ UNCHANGED <<adminVars, credVars, lockVars>>
  /\ pc[ExpiredT(s)] = "relogin"
  /\ ~autoLogin
  /\ SetPc(ExpiredT(s), "done")
  /\ UNCHANGED <<authStatus, tokenFile, webdavServer, webdavCancel,
                 webdavMutex, cancelled, inst, instTok, network, autoLogin,
                 panicked, nextSess, nLogin, nExpired, nUpdated, lastDone>>

(***************************************************************************)
(* The OnTokensUpdated callback of session s (lines 392-399): storeTokens   *)
(* of the tokens the backend renewed; an error is printed and dropped.      *)
(***************************************************************************)
\* TokensUpdated with a failed write treated as the end of the session.
TokensUpdatedFailureFatal(s, ok) ==
  /\ ~panicked
  /\ UNCHANGED <<adminVars, credVars, lockVars>>
  /\ nUpdated < MaxUpdated
  /\ Registered(s)
  /\ tokenFile' = IF ok THEN RenewedOf(instTok[s]) ELSE tokenFile
  /\ authStatus' = IF ok THEN authStatus
                   ELSE Status(FALSE, authStatus.lastLogin, TRUE,
                               "Tokens expired")
  /\ nUpdated' = nUpdated + 1
  /\ UNCHANGED <<webdavServer, webdavCancel, webdavMutex, cancelled, inst,
                 instTok, pc, network, autoLogin, panicked, nextSess, nLogin,
                 nExpired, lastDone>>

TokensUpdated(s, ok) ==
  /\ ~panicked
  /\ UNCHANGED <<adminVars, credVars, lockVars>>
  /\ nUpdated < MaxUpdated
  /\ Registered(s)
  /\ tokenFile' = IF ok THEN RenewedOf(instTok[s]) ELSE tokenFile
  /\ nUpdated' = nUpdated + 1
  /\ UNCHANGED <<authStatus, webdavServer, webdavCancel, webdavMutex,
                 cancelled, inst, instTok, pc, network, autoLogin, panicked,
                 nextSess, nLogin, nExpired, lastDone>>

Callers == {NoTask, Main} \cup {ExpiredT(s) : s \in Sess}
Stoppers ==
  {StartT(s) : s \in Sess} \cup {LogoutT(k) : k \in Logouts}
                           \cup {ExpiredT(s) : s \in Sess}

LoginReturn == \E s \in Sess : LoginStatus(s)

Stop ==
  \E t \in Stoppers : StopCancel(t) \/ StopShutdown(t) \/ StopNil(t)

Start ==
  \E s \in Sess :
    \/ StartLock(s) \/ StartLoad(s) \/ StartCtx(s)
    \/ \E ok \in BOOLEAN : StartInit(s, ok)
    \/ StartHandle(s)

Serve == \E s \in Sess, free \in BOOLEAN : ServeListen(s, free)

Next ==
  \/ NetworkUp
  \/ MainLoad
  \/ MainStatusErr
  \/ MainStatusOk
  \/ \E c \in Callers : LoginReject(c)
  \/ \E c \in Callers : LoginStoreFail(c)
  \/ \E c \in Callers : LoginStore(c)
  \/ \E s \in Sess : LoginStatus(s)
  \/ \E s \in Sess : StartLock(s)
  \/ \E s \in Sess : StartLoad(s)
  \/ \E s \in Sess : StartCtx(s)
  \/ \E s \in Sess, ok \in BOOLEAN : StartInit(s, ok)
  \/ \E s \in Sess : StartHandle(s)
  \/ \E t \in Stoppers : StopCancel(t)
  \/ \E t \in Stoppers : StopShutdown(t)
  \/ \E t \in Stoppers : StopNil(t)
  \/ \E s \in Sess, free \in BOOLEAN : ServeListen(s, free)
  \/ \E k \in Logouts : LogoutArrive(k)
  \/ \E k \in Logouts : LogoutLock(k)
  \/ \E k \in Logouts : LogoutRemove(k)
  \/ \E k \in Logouts : LogoutStatus(k)
  \/ \E s \in Sess : ExpiredFire(s)
  \/ \E s \in Sess : ExpiredStopCheck(s)
  \/ \E s \in Sess : ExpiredWait(s)
  \/ \E s \in Sess, ok \in BOOLEAN : TokensUpdated(s, ok)

Spec == Init /\ [][Next]_vars

(***************************************************************************)
(* Fairness: the Go scheduler runs every goroutine that can take a step.   *)
(* Requests and callback firings are the environment's and are not forced. *)
(* Every task is finite, so fairness of their union is fairness of each.   *)
(***************************************************************************)
TaskStep ==
  \/ MainLoad \/ MainStatusErr \/ MainStatusOk
  \/ LoginReturn
  \/ Start \/ Stop \/ Serve
  \/ \E k \in Logouts : LogoutLock(k) \/ LogoutRemove(k) \/ LogoutStatus(k)
  \/ \E s \in Sess : ExpiredStopCheck(s) \/ ExpiredWait(s)

FairSpec == Spec /\ WF_vars(TaskStep) /\ WF_vars(NetworkUp)

\* The same scheduler, with nothing assumed about the network.
SchedSpec == Spec /\ WF_vars(TaskStep)

(***************************************************************************)
(* Admin authentication: the handlers.  A step is one critical section of  *)
(* adminAuth.mu or one access to the password file; what a handler         *)
(* computes on its locals goes with the step that follows.                 *)
(***************************************************************************)
SetReq(t, r) == req' = [req EXCEPT ![t] = r]
Respond(t, p) == SetReq(t, [req[t] EXCEPT !.pc = p])

\* The requests of one endpoint are numbered in the order they arrive.
Arrives(t) ==
  /\ req[AdminMainT].pc = "serving"
  /\ req[t].pc = "idle"
  /\ \A u \in AdminTasks : (u[1] = t[1] /\ u[2] < t[2]) => req[u].pc # "idle"

\* sessions[token] = time.Now().Add(24 * time.Hour)
AddSession(token) ==
  [adminAuth EXCEPT !.sessions[token] = clock + SessionTTL]

\* SetupCheck without the early return of an initialized system.
SetupCheckAlwaysProceeds(k) ==
  /\ Arrives(SetupT(k))
  /\ Respond(SetupT(k), "parse")
  /\ UNCHANGED <<adminAuth, adminFile, clock, nextToken>>
  /\ UNCHANGED <<serverVars, credVars, lockVars>>

\* handleAdminSetup, lines 570-578
SetupCheck(k) ==
  /\ Arrives(SetupT(k))
  /\ Respond(SetupT(k), IF adminAuth.initialized THEN "already" ELSE "parse")
  /\ UNCHANGED <<adminAuth, adminFile, clock, nextToken>>
  /\ UNCHANGED <<serverVars, credVars, lockVars>>

\* lines 580-612: the password is validated, salted, hashed and written to
\* the password file.  stored = FALSE is generateSalt or storeAdminPassword
\* failing (500); a body that does not decode ends like a short password
\* (400).
SetupStore(k, password, stored) ==
  /\ req[SetupT(k)].pc = "parse"
  /\ IF ByteLen(password) < MinPasswordLen
       THEN Respond(SetupT(k), "badpassword") /\ UNCHANGED adminFile
       ELSE IF ~stored
         THEN Respond(SetupT(k), "error") /\ UNCHANGED adminFile
         ELSE LET salt == generateSalt(k)
                  passwordHash == hashPassword(password, salt)
              IN  /\ adminFile' = AdminPasswordData(passwordHash, salt)
                  /\ SetReq(SetupT(k),
                            [req[SetupT(k)] EXCEPT !.pc = "memory",
                                                   !.hash = passwordHash,
                                                   !.salt = salt])
  /\ UNCHANGED <<adminAuth, clock, nextToken>>
  /\ UNCHANGED <<serverVars, credVars, lockVars>>

\* SetupMemory with `initialized` left as it was.
SetupMemoryStaysOpen(k) ==
  /\ req[SetupT(k)].pc = "memory"
  /\ adminAuth' = [adminAuth EXCEPT !.passwordHash = req[SetupT(k)].hash,
                                    !.salt = req[SetupT(k)].salt]
  /\ Respond(SetupT(k), "token")
  /\ UNCHANGED <<adminFile, clock, nextToken>>
  /\ UNCHANGED <<serverVars, credVars, lockVars>>

\* lines 614-619
SetupMemory(k) ==
  /\ req[SetupT(k)].pc = "memory"
  /\ adminAuth' = [adminAuth EXCEPT !.passwordHash = req[SetupT(k)].hash,
                                    !.salt = req[SetupT(k)].salt,
                                    !.initialized = TRUE]
  /\ Respond(SetupT(k), "token")
  /\ UNCHANGED <<adminFile, clock, nextToken>>
  /\ UNCHANGED <<serverVars, credVars, lockVars>>

\* IssueSession with a sessions map that holds the new session only.
IssueSessionReplacesMap(t, generated) ==
  /\ req[t].pc = "token"
  /\ IF generated
       THEN /\ adminAuth' =
                 [adminAuth EXCEPT !.sessions =
                    [u \in Tokens |-> IF u = nextToken THEN clock + SessionTTL
                                      ELSE NoSession]]
            /\ SetReq(t, [req[t] EXCEPT !.pc = "ok", !.cookie = nextToken])
            /\ nextToken' = nextToken + 1
       ELSE /\ Respond(t, "nosession")
            /\ UNCHANGED <<adminAuth, nextToken>>
  /\ UNCHANGED <<adminFile, clock>>
  /\ UNCHANGED <<serverVars, credVars, lockVars>>

\* lines 621-646 (handleAdminSetup) and 680-705 (handleAdminLogin): the
\* session token is generated, stored with its expiry and sent as the cookie
IssueSession(t, generated) ==
  /\ req[t].pc = "token"
  /\ IF generated
       THEN /\ adminAuth' = AddSession(nextToken)
            /\ SetReq(t, [req[t] EXCEPT !.pc = "ok", !.cookie = nextToken])
            /\ nextToken' = nextToken + 1
       ELSE /\ Respond(t, "nosession")
            /\ UNCHANGED <<adminAuth, nextToken>>
  /\ UNCHANGED <<adminFile, clock>>
  /\ UNCHANGED <<serverVars, credVars, lockVars>>

SetupSession(k, generated) == IssueSession(SetupT(k), generated)

\* handleAdminLogin, lines 655-678
AdminLoginCheck(k, password) ==
  /\ Arrives(AdminLoginT(k))
  /\ Respond(AdminLoginT(k),
             IF ~adminAuth.initialized THEN "notinitialized"
             ELSE IF hashPassword(password, adminAuth.salt)
                       # adminAuth.passwordHash THEN "invalid"
             ELSE "token")
  /\ UNCHANGED <<adminAuth, adminFile, clock, nextToken>>
  /\ UNCHANGED <<serverVars, credVars, lockVars>>

AdminLoginSession(k, generated) == IssueSession(AdminLoginT(k), generated)

\* The cookies a client can present: none, one the server issued at some
\* time, or a value it never issued.
CookieValues == {NoCookie, Forged} \cup Tokens
Cookies == {NoCookie, Forged} \cup {t \in Tokens : t < nextToken}

\* AdminLogout ending every session.
AdminLogoutEndsAll(k, cookie) ==
  /\ Arrives(AdminLogoutT(k))
  /\ cookie \in Cookies
  /\ adminAuth' = [adminAuth EXCEPT !.sessions = [t \in Tokens |-> NoSession]]
  /\ Respond(AdminLogoutT(k), "ok")
  /\ UNCHANGED <<adminFile, clock, nextToken>>
  /\ UNCHANGED <<serverVars, credVars, lockVars>>

\* handleAdminLogout, lines 708-735
AdminLogout(k, cookie) ==
  /\ Arrives(AdminLogoutT(k))
  /\ cookie \in Cookies
  /\ adminAuth' = IF cookie \in Tokens
                    THEN [adminAuth EXCEPT !.sessions[cookie] = NoSession]
                    ELSE adminAuth
  /\ Respond(AdminLogoutT(k), "ok")
  /\ UNCHANGED <<adminFile, clock, nextToken>>
  /\ UNCHANGED <<serverVars, credVars, lockVars>>

\* handleAdminStatus, lines 547-562
AdminStatus(k) ==
  /\ Arrives(AdminStatusT(k))
  /\ Respond(AdminStatusT(k),
             IF adminAuth.initialized THEN "initialized"
             ELSE "notinitialized")
  /\ UNCHANGED <<adminAuth, adminFile, clock, nextToken>>
  /\ UNCHANGED <<serverVars, credVars, lockVars>>

\* withAdminAuth, lines 515-530: the handler runs at once while there is no
\* admin credential; a request without the cookie is refused
GateInit(k, cookie) ==
  /\ Arrives(GateT(k))
  /\ cookie \in Cookies
  /\ SetReq(GateT(k),
            [req[GateT(k)] EXCEPT
               !.pc = IF ~adminAuth.initialized THEN "admitted"
                      ELSE IF cookie = NoCookie THEN "unauthorized"
                      ELSE "session",
               !.cookie = cookie])
  /\ UNCHANGED <<adminAuth, adminFile, clock, nextToken>>
  /\ UNCHANGED <<serverVars, credVars, lockVars>>

\* lines 532-543: expiry, exists := sessions[cookie];
\* !exists || time.Now().After(expiry)
GateSession(k) ==
  /\ req[GateT(k)].pc = "session"
  /\ LET cookie == req[GateT(k)].cookie
         exists == cookie \in Tokens /\ adminAuth.sessions[cookie] # NoSession
     IN  Respond(GateT(k),
                 IF ~exists \/ clock > adminAuth.sessions[cookie]
                   THEN "expired" ELSE "admitted")
  /\ UNCHANGED <<adminAuth, adminFile, clock, nextToken>>
  /\ UNCHANGED <<serverVars, credVars, lockVars>>

\* resetAdminPassword, lines 278-292, called by doListen when
\* ADMIN_PASSWORD_RESET is "true" (199-202).  The error of os.Remove is
\* dropped: removed = FALSE is the file staying where it is.
ResetAdminPassword(removed) ==
  /\ req[AdminMainT].pc = "reset"
  /\ adminFile' = IF removed THEN NoAdminFile ELSE adminFile
  /\ adminAuth' = [adminAuth EXCEPT !.passwordHash = << >>,
                                    !.salt = << >>,
                                    !.initialized = FALSE,
                                    !.sessions = [t \in Tokens |-> NoSession]]
  /\ Respond(AdminMainT, "initreset")
  /\ UNCHANGED <<clock, nextToken>>
  /\ UNCHANGED <<serverVars, credVars, lockVars>>

\* doListen, lines 204-208: initAdminAuth, then the admin server is started
InitAdminAuth ==
  /\ req[AdminMainT].pc \in {"init", "initreset"}
  /\ adminAuth' = initAdminAuth(adminFile)
  /\ Respond(AdminMainT, "serving")
  /\ UNCHANGED <<adminFile, clock, nextToken>>
  /\ UNCHANGED <<serverVars, credVars, lockVars>>

\* time passes
Tick ==
  /\ clock < MaxClock
  /\ clock' = clock + 1
  /\ UNCHANGED <<adminAuth, adminFile, req, nextToken>>
  /\ UNCHANGED <<serverVars, credVars, lockVars>>

AdminNext ==
  \/ \E k \in 1..MaxSetups : SetupCheck(k)
  \/ \E k \in 1..MaxSetups, password \in Passwords, stored \in BOOLEAN :
        SetupStore(k, password, stored)
  \/ \E k \in 1..MaxSetups : SetupMemory(k)
  \/ \E k \in 1..MaxSetups, generated \in BOOLEAN :
        SetupSession(k, generated)
  \/ \E k \in 1..MaxAdminLogins, password \in Passwords :
        AdminLoginCheck(k, password)
  \/ \E k \in 1..MaxAdminLogins, generated \in BOOLEAN :
        AdminLoginSession(k, generated)
  \/ \E k \in 1..MaxAdminLogouts, cookie \in CookieValues :
        AdminLogout(k, cookie)
  \/ \E k \in 1..MaxAdminStatus : AdminStatus(k)
  \/ \E k \in 1..MaxGates, cookie \in CookieValues : GateInit(k, cookie)
  \/ \E k \in 1..MaxGates : GateSession(k)
  \/ \E removed \in BOOLEAN : ResetAdminPassword(removed)
  \/ InitAdminAuth
  \/ Tick

\* The credential an earlier run of the process persisted.
PriorAdminFile == AdminPasswordData(hashPassword(PwA, PriorSalt), PriorSalt)

\* The package variable adminAuth of line 61: nothing set, no sessions map
ZeroAdminAuth ==
  [initialized |-> FALSE, passwordHash |-> << >>, salt |-> << >>,
   sessions |-> [t \in Tokens |-> NoSession]]

\* A process start, with or without a persisted credential and with or
\* without ADMIN_PASSWORD_RESET=true, as doListen begins.
AdminStart(f, reset) ==
  /\ adminFile = f
  /\ adminAuth = ZeroAdminAuth
  /\ clock = 0
  /\ req = [t \in AdminTasks |->
              IF t = AdminMainT
                THEN [IdleReq EXCEPT !.pc = IF reset THEN "reset" ELSE "init"]
                ELSE IdleReq]
  /\ nextToken = 1

\* The admin side; the file-server side is at rest (no token file, no
\* credentials to log in).
AdminInit ==
  /\ ServerInit
  /\ tokenFile = NoFile
  /\ ~autoLogin
  /\ \E f \in {NoAdminFile, PriorAdminFile}, reset \in BOOLEAN :
        AdminStart(f, reset)
  /\ CredAtRest
  /\ LocksAtRest

AdminSpec == AdminInit /\ [][AdminNext]_vars

(***************************************************************************)
(* Credentials: doListen's automatic login, one step per call.             *)
(***************************************************************************)
\* canAutoLogin, lines 192-195
canAutoLogin ==
  env["PROTON_USERNAME"] # "" /\ env["PROTON_PASSWORD"] # ""

\* getCredential, lines 97-124: the value of the variable when it is set
\* ("false" of an optional variable gives ""), else the answer to a prompt on
\* the standard input.  At the end of the input ReadString gives io.EOF;
\* what the masked read of go_asterisks gives there is libErr: an error, or
\* no input and no error.
getCredential(envVar, libErr) ==
  IF env[envVar] # ""
    THEN [value |-> IF env[envVar] = "false" /\ envVar \in Optional
                      THEN "" ELSE env[envVar],
          err |-> FALSE, prompt |-> FALSE]
    ELSE [value |-> IF stdin = "typed" THEN "typed" ELSE "",
          err |-> stdin = "eof" /\ (envVar \in Masked => libErr),
          prompt |-> TRUE]

\* doListen, lines 210 and 224-236, when no tokens could be loaded: doLogin
\* is called when canAutoLogin holds, else doListen waits forever
AutoLoginCheck ==
  /\ cpc = "start"
  /\ cpc' = IF canAutoLogin THEN "resolve" ELSE "wait"
  /\ UNCHANGED <<env, stdin, cred, prompted>>
  /\ UNCHANGED <<serverVars, adminVars, lockVars>>

\* doLogin, lines 127-145: the next of the four getCredential calls.  A
\* prompt on an input where nobody types does not return.
DoLoginResolve(libErr) ==
  /\ cpc = "resolve"
  /\ Len(cred) < Len(EnvVars)
  /\ LET envVar == EnvVars[Len(cred) + 1]
         got == getCredential(envVar, libErr)
     IN  /\ got.prompt => stdin # "silent"
         /\ prompted' = IF got.prompt THEN prompted \cup {envVar}
                        ELSE prompted
         /\ IF got.err
              THEN cpc' = "failed" /\ UNCHANGED cred
              ELSE cpc' = cpc /\ cred' = Append(cred, got.value)
  /\ UNCHANGED <<env, stdin>>
  /\ UNCHANGED <<serverVars, adminVars, lockVars>>

\* doLogin, line 147: loginWithCredentials(user, pass, mailbox, twoFA)
DoLoginCall ==
  /\ cpc = "resolve"
  /\ Len(cred) = Len(EnvVars)
  /\ cpc' = "login"
  /\ UNCHANGED <<env, stdin, cred, prompted>>
  /\ UNCHANGED <<serverVars, adminVars, lockVars>>

CredNext ==
  \/ AutoLoginCheck
  \/ \E libErr \in BOOLEAN : DoLoginResolve(libErr)
  \/ DoLoginCall

\* A start of the listen command with no stored tokens, in any environment.
CredInit ==
  /\ ServerInit
  /\ tokenFile = NoFile
  /\ AdminBoot(NoAdminFile)
  /\ env \in [Required \cup Optional -> EnvValues]
  /\ autoLogin = canAutoLogin
  /\ stdin \in StdinKinds
  /\ cpc = "start"
  /\ cred = << >>
  /\ prompted = {}
  /\ LocksAtRest

CredSpec == CredInit /\ [][CredNext]_vars

(***************************************************************************)
(* The mutexes.  sync.Mutex is not reentrant: Lock waits for as long as    *)
(* the mutex is held, by whichever goroutine.                              *)
(***************************************************************************)
Returned(g) == at[g] > Len(LockOps(g))
NextCall(g) == LockOps(g)[at[g]]

\* mu.Lock()
Acquire(g) ==
  /\ ~Returned(g)
  /\ NextCall(g).op = "Lock"
  /\ owner[NextCall(g).mu] = NoOwner
  /\ owner' = [owner EXCEPT ![NextCall(g).mu] = g]
  /\ at' = [at EXCEPT ![g] = @ + 1]
  /\ UNCHANGED <<serverVars, adminVars, credVars>>

\* mu.Unlock()
Release(g) ==
  /\ ~Returned(g)
  /\ NextCall(g).op = "Unlock"
  /\ owner[NextCall(g).mu] = g
  /\ owner' = [owner EXCEPT ![NextCall(g).mu] = NoOwner]
  /\ at' = [at EXCEPT ![g] = @ + 1]
  /\ UNCHANGED <<serverVars, adminVars, credVars>>

LockNext ==
  \/ \E g \in Goroutines : Acquire(g)
  \/ \E g \in Goroutines : Release(g)

\* The mutexes alone: the file-server side is at rest (no token file, no
\* credentials) and no admin password is set.
LockInit ==
  /\ ServerInit
  /\ tokenFile = NoFile
  /\ ~autoLogin
  /\ AdminBoot(NoAdminFile)
  /\ CredAtRest
  /\ LocksAtRest

LockSpec == LockInit /\ [][LockNext]_vars

----------------------------------------------------------------------------
Live == {i \in Sess : Listening(i)}
SomeServing == Live # {}

C2_ServingImpliesLoggedIn == SomeServing => authStatus.loggedIn

\* C3: every file-server instance that is listening is the one recorded in
\* webdavServer, so a later Stop or Start can shut it down.
C3_NoLeakedListener == \A i \in Sess : Listening(i) => webdavServer = i

\* C4: once the token-expired callback of a session has fired and its stop
\* step has finished, no file-server instance bound to that session is serving.
C4_ExpiredSessionNotServing ==
  \A s \in Sess : pc[ExpiredT(s)] \in {"relogin", "done"} => ~Listening(s)

\* C5: after a logout request has completed, and until a later login
\* succeeds, no file-server is running.
C5_NoServerAfterLogout == lastDone = "logout" => ~SomeServing

\* Login s has returned success to its caller.
LoginSucceeded(s) == pc[LoginT(s)] = "done"
\* A file-server is serving with the tokens login s persisted.
ServingWith(s) == \E i \in Sess : Listening(i) /\ instTok[i] = s
\* What the claim sets aside: a logout or an expiry intervened, the session
\* did not initialise, the address could not be bound, or the tokens of the
\* login were replaced by those of another login.
Excused(s) ==
  \/ \E k \in Logouts : pc[LogoutT(k)] # "idle"
  \/ nExpired > 0
  \/ \E i \in Sess : pc[StartT(i)] = "done" /\ inst[i] = "none"
  \/ \E i \in Sess : inst[i] = "failed"
  \/ tokenFile # TokensOf(s)

\* C6: after a successful login the file-server is eventually serving with
\* the tokens of that login, provided the network becomes reachable, the
\* session initialises, the address can be bound and no logout or expiry
\* intervenes.  (Checked under FairSpec.  A behaviour that ends in `panicked`
\* is the process ended by the nil dereference: nothing runs after it.)
C6_LoginLeadsToServing ==
  \A s \in Sess : LoginSucceeded(s) ~> (ServingWith(s) \/ Excused(s))

\* Every token-expired callback that fired has returned, and no login or
\* resume has succeeded and no logout has completed since the last one fired.
ExpiredAndReturned ==
  /\ lastDone = "expired"
  /\ \A s \in Sess : pc[ExpiredT(s)] \in {"idle", "done"}
  /\ \A s \in Sess : pc[LoginT(s)] # "status"

StaysStopped ==
  ~authStatus.loggedIn /\ authStatus.needsLogin /\ ~SomeServing

\* C7: once the token-expired callback has run with no auto-login credentials
\* configured, AuthStatus is {loggedIn:false, needsLogin:true} with an error
\* set and no file-server is running, and this stays so until a login
\* succeeds.
C7_ExpiredStaysStopped ==
  (~autoLogin /\ ExpiredAndReturned) =>
     (StaysStopped /\ authStatus.error # "")

\* C8: with auto-login credentials configured, once the login attempted by
\* the token-expired callback has failed, the system stays expired with no
\* file-server until a login succeeds.
C8_FailedReloginStaysStopped ==
  (autoLogin /\ ExpiredAndReturned) => StaysStopped

\* C9: every login attempt that returns an error, whatever step failed,
\* leaves AuthStatus with loggedIn = false, needsLogin = true and a non-empty
\* error.
C9_FailedLoginVisible ==
  [][(\E c \in Callers : LoginReject(c) \/ LoginStoreFail(c)) =>
       (/\ ~authStatus'.loggedIn
        /\ authStatus'.needsLogin
        /\ authStatus'.error # "")]_vars

\* C10: a login the backend rejects sets AuthStatus to {loggedIn:false,
\* needsLogin:true, error:<message>} and leaves the server handle, the running
\* file-server and the persisted token unchanged.
C10_RejectedLoginFrame ==
  [][(\E c \in Callers : LoginReject(c)) =>
       (/\ ~authStatus'.loggedIn
        /\ authStatus'.needsLogin
        /\ authStatus'.error = "rejected"
        /\ UNCHANGED <<webdavServer, webdavCancel, inst, tokenFile>>)]_vars

\* A login was rejected while a file-server was serving from persisted tokens.
C10_Witness ==
  /\ authStatus.error = "rejected"
  /\ \E i \in Sess : Listening(i) /\ webdavServer = i
  /\ tokenFile.state = "ok"

\* The token file holds what was written when login s persisted its tokens
\* or later: the tokens of login s or of a later login, tokens the backend
\* renewed, or nothing after a logout removed the file.
TokenAtOrAfter(s) ==
  \/ tokenFile.state = "ok" /\ ~tokenFile.renewed /\ tokenFile.access \in s..MaxSess
  \/ tokenFile.state = "ok" /\ tokenFile.renewed
  \/ tokenFile = NoFile /\ \E k \in Logouts : pc[LogoutT(k)] \in {"status", "done"}

\* The order of the steps of a successful login: the step that persists the
\* tokens leaves AuthStatus alone and triggers no start; the step that records
\* the status finds the tokens persisted, sets {loggedIn:true, lastLogin:now,
\* needsLogin:false, error:empty}, returns to the caller and triggers the
\* start as a task that has not yet taken a step.
LoginOrder ==
  /\ \A c \in Callers : LoginStore(c) =>
        /\ tokenFile' = TokensOf(nextSess)
        /\ UNCHANGED authStatus
        /\ pc'[StartT(nextSess)] = "idle"
  /\ \A s \in Sess : LoginStatus(s) =>
        /\ TokenAtOrAfter(s)
        /\ authStatus' = Status(TRUE, authStatus'.lastLogin, FALSE, "")
        /\ authStatus'.lastLogin > authStatus.lastLogin
        /\ pc'[LoginT(s)] = "done"
        /\ pc[StartT(s)] = "idle" /\ pc'[StartT(s)] = "lock"
        /\ UNCHANGED <<tokenFile, webdavServer, webdavCancel, webdavMutex, inst>>

\* startWebDAVServer of the session login s triggered reads the token file.
StartOfLoginLoads(s) == StartLoad(s) /\ pc[LoginT(s)] = "done"

C12_LogoutPostcondition ==
  [][\A k \in Logouts : LogoutStatus(k) =>
       /\ webdavServer' = Nil
       /\ tokenFile'.state = "absent"
       /\ ~authStatus'.loggedIn
       /\ authStatus'.needsLogin
       /\ authStatus'.error = ""]_vars

\* C13: the token-renewed callback replaces the persisted token with the new
\* token; when that write fails the failure is only logged: AuthStatus, the
\* server handle and the running file-server are unchanged and the session
\* continues.
C13_TokenRenewedFrame ==
  [][\A s \in Sess :
       /\ TokensUpdated(s, TRUE) =>
             /\ tokenFile' = RenewedOf(instTok[s])
             /\ UNCHANGED <<authStatus, webdavServer, webdavCancel, inst,
                            cancelled, pc>>
       /\ TokensUpdated(s, FALSE) =>
             UNCHANGED <<tokenFile, authStatus, webdavServer, webdavCancel,
                         inst, cancelled, pc>>]_vars

\* A write of renewed tokens has failed (the file still holds the tokens of
\* the earlier run, and nothing else has written it) while the file-server
\* of the resumed session is serving.
C13_Witness ==
  /\ nUpdated > 0
  /\ tokenFile = TokensOf(PriorAccess)
  /\ \A s \in Sess : pc[LoginT(s)] = "idle"
  /\ \A k \in Logouts : pc[LogoutT(k)] = "idle"
  /\ authStatus.loggedIn
  /\ \E i \in Sess : Listening(i) /\ webdavServer = i

\* Nothing but doListen has run: no login request, no logout, no start, no
\* callback.  The token file is then the one the process found at startup.
OnlyStartupRan ==
  /\ nLogin = 0 /\ nExpired = 0 /\ nUpdated = 0
  /\ \A s \in Sess : pc[LoginT(s)] = "idle" /\ pc[StartT(s)] = "idle"
  /\ \A k \in Logouts : pc[LogoutT(k)] = "idle"

\* ResumeFromToken's NoStoredToken: no file, an unreadable file, or tokens
\* whose access field is empty.
NoStoredToken ==
  loadTokens(tokenFile).err \/ loadTokens(tokenFile).access = EmptyAccess

\* C14: at startup, a persisted token that is absent or unreadable and one
\* whose access field is empty are handled the same way, as no stored token:
\* the resume fails, no file-server is started, and the system falls back to
\* automatic or manual login with AuthStatus showing needsLogin = true.
C14_EmptyTokenIsNoToken ==
  (OnlyStartupRan /\ NoStoredToken /\ pc[Main] \in {"autologin", "done"}) =>
    /\ ~authStatus.loggedIn
    /\ authStatus.needsLogin
    /\ webdavServer = Nil /\ ~SomeServing

\* C15: resuming from a stored token at startup marks the session Connected
\* and proceeds to the server start without changing AuthStatus.lastLogin.
C15_ResumeKeepsLastLogin ==
  [][MainStatusOk =>
       /\ authStatus'.loggedIn /\ ~authStatus'.needsLogin
       /\ \E s \in Sess : pc[StartT(s)] = "idle" /\ pc'[StartT(s)] = "lock"
       /\ authStatus'.lastLogin = authStatus.lastLogin]_vars

\* C16: in every reachable state of AuthStatus, from process start on and
\* after any sequence of logins, resumes, expiry callbacks and logouts,
\* loggedIn = true implies needsLogin = false.
C16_LoggedInNotNeedsLogin == authStatus.loggedIn => ~authStatus.needsLogin

\* The session is Connected again after an expiry callback and a logout set
\* needsLogin.
C16_Witness ==
  /\ authStatus.loggedIn
  /\ nExpired > 0
  /\ \E k \in Logouts : pc[LogoutT(k)] = "done"

\* C17: every Stop releases the listening address, also when the serve task
\* had not yet bound it: the server Shutdown is called on does not hold the
\* address afterwards, and a Start issued after a Stop has returned binds the
\* address (no other program holding it: free = TRUE).
C17_StartAfterStopBinds ==
  [][/\ \A t \in Stoppers :
          (StopShutdown(t) /\ webdavServer # Nil) =>
             inst'[webdavServer] = "closed"
     /\ \A s \in Sess :
          (ServeListen(s, TRUE) /\ webdavServer # Nil
                                /\ inst[webdavServer] = "new") =>
             inst'[webdavServer] = "listening"]_vars

----------------------------------------------------------------------------
\* The key is in the sessions map.
\* Request t is answered, or moves on, in this step.
Handled(t, from) == req[t].pc = from /\ req'[t].pc # from

HasSession(c) == c \in Tokens /\ adminAuth.sessions[c] # NoSession
\* Authorize's session condition: the token maps to a session with
\* expiresAt > now.
ValidSession(c) == HasSession(c) /\ adminAuth.sessions[c] > clock

\* The step on which the gate answers request k: in GateInit unless it goes
\* on to look the session up, else in GateSession.
GateDecides(k) ==
  /\ (\E c \in CookieValues : GateInit(k, c)) \/ GateSession(k)
  /\ req'[GateT(k)].pc # "session"

Admitted(k) == req'[GateT(k)].pc = "admitted"

\* C18: the authorization gate admits a request iff no admin credential
\* exists or the presented token maps to a session with expiresAt > now; a
\* session whose expiresAt lies in the past is rejected although it is still
\* in the sessions mapping, and a request at the instant now = expiresAt is
\* rejected.
C18_GateIffAuthorized ==
  [][\A k \in 1..MaxGates : GateDecides(k) =>
       (Admitted(k) <=>
          (~adminAuth.initialized \/ ValidSession(req'[GateT(k)].cookie)))]_vars

SetupCompleted(j) == req[SetupT(j)].pc = "ok"

\* C19: in a fresh process with no persisted admin credential, admin-status
\* reports initialized = false and the protected endpoints are admitted
\* without a session; from the moment Setup completes, every request to a
\* protected endpoint that carries no session, an unknown one or one past its
\* expiry is rejected, and the session issued by that Setup is accepted
\* (while it is in the mapping and before its expiry).
C19_GateClosesAfterSetup ==
  [][/\ adminFile = NoAdminFile =>
          /\ ~adminAuth.initialized
          /\ \A k \in 1..MaxAdminStatus :
                (Handled(AdminStatusT(k), "idle") /\ AdminStatus(k)) =>
                   req'[AdminStatusT(k)].pc = "notinitialized"
          /\ \A k \in 1..MaxGates :
                Handled(GateT(k), "idle") =>
                   \A c \in CookieValues : GateInit(k, c) => Admitted(k)
     /\ (\E j \in 1..MaxSetups : SetupCompleted(j)) =>
          /\ \A k \in 1..MaxAdminStatus :
                (Handled(AdminStatusT(k), "idle") /\ AdminStatus(k)) =>
                   req'[AdminStatusT(k)].pc = "initialized"
          /\ \A k \in 1..MaxGates :
                Handled(GateT(k), "idle") =>
                   \A c \in CookieValues : GateInit(k, c) =>
                      /\ ~Admitted(k)
                      /\ c = NoCookie => req'[GateT(k)].pc = "unauthorized"
          /\ \A k \in 1..MaxGates :
                (Handled(GateT(k), "session") /\ GateSession(k)) =>
                LET c == req[GateT(k)].cookie
                IN  /\ (~HasSession(c) \/ adminAuth.sessions[c] < clock) =>
                          ~Admitted(k)
                    /\ (/\ \E j \in 1..MaxSetups :
                              SetupCompleted(j) /\ req[SetupT(j)].cookie = c
                        /\ HasSession(c)
                        /\ clock < adminAuth.sessions[c]) => Admitted(k)]_vars

\* After a Setup completed, a request presenting the session it issued was
\* admitted.
C19_Witness ==
  \E j \in 1..MaxSetups, k \in 1..MaxGates :
    /\ SetupCompleted(j)
    /\ req[GateT(k)].pc = "admitted"
    /\ req[GateT(k)].cookie = req[SetupT(j)].cookie
    /\ adminAuth.initialized

\* C20: a Setup call issued when an admin credential already exists fails
\* with AlreadyInitialized and leaves the stored digest, the salt and the
\* sessions mapping unchanged.
C20_SetupWhenInitialized ==
  [][\A k \in 1..MaxSetups :
       /\ (SetupCheck(k) /\ adminAuth.initialized) =>
             /\ req'[SetupT(k)].pc = "already"
             /\ UNCHANGED <<adminAuth, adminFile>>
       /\ req[SetupT(k)].pc = "already" =>
             req'[SetupT(k)] = req[SetupT(k)]]_vars

\* A Setup was refused while a credential and a session existed.
C20_Witness ==
  \E k \in 1..MaxSetups :
    /\ req[SetupT(k)].pc = "already"
    /\ adminFile.state = "ok"
    /\ \E c \in Tokens : HasSession(c)

\* Setup j answered 200 and its password was `password`.
SetupSucceededWith(j, password) ==
  /\ SetupCompleted(j)
  /\ req[SetupT(j)].hash = hashPassword(password, req[SetupT(j)].salt)

\* C21: after a successful Setup with password p, an admin Login with p
\* passes the password check and is issued a session (unless no token can be
\* generated), and an admin Login with any other password fails with
\* InvalidPassword and issues no session.
C21_LoginAfterSetup ==
  [][\A j \in 1..MaxSetups, k \in 1..MaxAdminLogins, p, q \in Passwords :
       (SetupSucceededWith(j, p) /\ AdminLoginCheck(k, q)) =>
          /\ UNCHANGED <<adminAuth, nextToken>>
          /\ req'[AdminLoginT(k)].pc = IF q = p THEN "token" ELSE "invalid"]_vars

\* The credential the login check compares against.
Credential == <<adminAuth.initialized, adminAuth.passwordHash, adminAuth.salt>>

\* C22: an admin Login fails with NotInitialized when no credential exists;
\* a successful admin Login adds exactly one new session with expiry now + 24
\* hours and leaves every session that is already in the mapping unchanged
\* and still valid.
C22_AdminLoginFrame ==
  [][\A k \in 1..MaxAdminLogins :
       /\ \A password \in Passwords :
            (/\ Handled(AdminLoginT(k), "idle")
             /\ ~adminAuth.initialized
             /\ AdminLoginCheck(k, password)) =>
               /\ req'[AdminLoginT(k)].pc = "notinitialized"
               /\ UNCHANGED <<adminAuth, adminFile, nextToken>>
       /\ (Handled(AdminLoginT(k), "token") /\ AdminLoginSession(k, TRUE)) =>
            LET new == req'[AdminLoginT(k)].cookie
            IN  /\ req'[AdminLoginT(k)].pc = "ok"
                /\ new \in Tokens
                /\ ~HasSession(new)
                /\ adminAuth'.sessions[new] = clock + SessionTTL
                /\ \A u \in Tokens \ {new} :
                      /\ adminAuth'.sessions[u] = adminAuth.sessions[u]
                      /\ (ValidSession(u) => ValidSession(u)')
                /\ UNCHANGED <<Credential, adminFile>>]_vars

\* An admin login was issued a session while another session was in the map.
C22_Witness ==
  \E k \in 1..MaxAdminLogins, u \in Tokens :
    /\ req[AdminLoginT(k)].pc = "ok"
    /\ HasSession(req[AdminLoginT(k)].cookie)
    /\ u # req[AdminLoginT(k)].cookie
    /\ ValidSession(u)

\* C23: a Setup call with a password shorter than 8 characters fails with
\* WeakPassword and changes nothing: the credential in memory, the password
\* file and the sessions stay as they were.
C23_ShortPasswordRejected ==
  [][\A k \in 1..MaxSetups, password \in Passwords, stored \in BOOLEAN :
       (SetupStore(k, password, stored) /\ Len(password) < MinPasswordLen) =>
          /\ req'[SetupT(k)].pc = "badpassword"
          /\ UNCHANGED <<adminAuth, adminFile, nextToken>>]_vars

\* C24: Reset deletes the persisted admin credential, clears the digest and
\* the salt in memory and removes every admin session; when a process start
\* with reset requested has initialised the admin subsystem, IsInitialized is
\* false and the sessions mapping is empty.
C24_ResetLeavesUninitialized ==
  [][/\ \A removed \in BOOLEAN :
          ResetAdminPassword(removed) =>
             /\ adminFile' = NoAdminFile
             /\ adminAuth' = ZeroAdminAuth
     /\ (InitAdminAuth /\ req[AdminMainT].pc = "initreset") =>
          /\ ~adminAuth'.initialized
          /\ \A t \in Tokens : ~HasSession(t)']_vars

\* C25: admin Logout removes the session named by the presented token if it
\* exists and always succeeds; a logout with an unknown token, an already
\* removed token or no token leaves the sessions mapping and the credential
\* unchanged.
C25_AdminLogoutIdempotent ==
  [][\A k \in 1..MaxAdminLogouts :
       Handled(AdminLogoutT(k), "idle") =>
         /\ req'[AdminLogoutT(k)].pc = "ok"
         /\ adminFile' = adminFile
         /\ adminAuth'.passwordHash = adminAuth.passwordHash
         /\ adminAuth'.salt = adminAuth.salt
         /\ adminAuth'.initialized = adminAuth.initialized
         /\ \A cookie \in Cookies :
              AdminLogout(k, cookie) =>
                 IF HasSession(cookie)
                   THEN adminAuth'.sessions =
                          [adminAuth.sessions EXCEPT ![cookie] = NoSession]
                   ELSE adminAuth'.sessions = adminAuth.sessions]_vars

\* Both logouts were answered, a session that was issued is gone and another
\* is still in the map.
C25_Witness ==
  /\ \A k \in 1..MaxAdminLogouts : req[AdminLogoutT(k)].pc = "ok"
  /\ \E t, u \in Tokens :
       /\ t < nextToken
       /\ ~HasSession(t)
       /\ HasSession(u)

\* C28: when two Setup calls run concurrently on an uninitialized admin
\* subsystem, exactly one succeeds and the stored credential is the one of
\* the call that succeeded.
C28_OneSetupSucceeds ==
  \A i, j \in 1..MaxSetups :
    SetupCompleted(i) =>
       /\ (SetupCompleted(j) => i = j)
       /\ adminAuth.passwordHash = req[SetupT(i)].hash
       /\ adminAuth.salt = req[SetupT(i)].salt

\* The value doLogin is to pass for a variable that is set.
Configured(envVar) ==
  IF env[envVar] = "false" /\ envVar \in Optional THEN "" ELSE env[envVar]

\* C26: automatic login is available exactly when username and password are
\* configured, and it then resolves all four credentials without interactive
\* input: the sentinel "false" of the mailbox password or the second factor
\* yields an empty credential, and an optional variable that is not set
\* yields an empty credential too and does not stop the automatic login.
C26_AutoLoginResolves ==
  /\ cpc \in {"resolve", "login", "failed"} <=>
        (cpc # "start" /\ \A v \in Required : env[v] # Unset)
  /\ cpc # "failed"
  /\ prompted = {}
  /\ \A i \in 1..Len(cred) : cred[i] = Configured(EnvVars[i])

\* Task t is executing stopWebDAVServer's sequence (lines 460-473).
InStop(t) == pc[t] \in {"stop_cancel", "stop_shutdown", "stop_nil"}

\* C27: a stop issued by the token-expired callback and a stop issued by a
\* logout or by a restart never run at the same time: every execution of the
\* stop sequence happens while the start/stop lock is held by the task that
\* executes it, and at most one task is in the stop sequence.
C27_StopUnderLock ==
  /\ \A t \in Stoppers : InStop(t) => webdavMutex = t
  /\ Cardinality({t \in Stoppers : InStop(t)}) <= 1

\* The start of session s fails in this step: session.Init returns an error,
\* or ListenAndServe of the server the start recorded cannot bind.
StartFails(s) ==
  \/ StartInit(s, FALSE)
  \/ /\ \E free \in BOOLEAN : ServeListen(s, free)
     /\ \E i \in Sess : inst[i] # "failed" /\ inst'[i] = "failed"

\* C29: a start attempt that fails, because the address cannot be bound or
\* because the session cannot be initialised, leaves the system not
\* Connected: after it AuthStatus does not show loggedIn = true while no
\* file-server is serving, and the server handle is empty.
C29_FailedStartNotConnected ==
  [][\A s \in Sess :
       StartFails(s) =>
          /\ ~SomeServing' => ~authStatus'.loggedIn
          /\ webdavServer' = Nil]_vars

\* C30: Start returns only once the listener is bound and serving: when
\* startWebDAVServer returns with the handle set, the instance it recorded
\* is bound to the listen address.
C30_StartReturnsBound ==
  [][\A s \in Sess :
       StartHandle(s) => (webdavServer' = s /\ Listening(s)')]_vars

\* C31: a control-API request always completes, also while a concurrent
\* server start is waiting for the network or for the session to initialise:
\* a logout request that has been dispatched is answered (unless the process
\* has ended).
C31_LogoutCompletes ==
  \A k \in Logouts :
    pc[LogoutT(k)] = "lock" ~> (pc[LogoutT(k)] = "done" \/ panicked)

\* Task t reaches the nil check that guards stopWebDAVServer in this step.
StopEntry(t) ==
  CASE Kind(t) = "start" -> StartLock(t[2])
    [] Kind(t) = "logout" -> LogoutLock(t[2])
    [] Kind(t) = "expired" -> ExpiredStopCheck(t[2])

\* What a stop works on.
StopState == <<webdavServer, webdavCancel, cancelled, inst>>

\* C32: Stop is a no-op when no server handle exists; otherwise it cancels
\* the session context first, then runs the graceful shutdown of the server
\* the handle names, then empties the handle, whatever the shutdown returned.
\* A Stop that follows a Stop finds no handle and changes nothing.
C32_StopSequence ==
  [][\A t \in Stoppers :
       /\ (pc'[t] # pc[t] /\ webdavServer = Nil /\ StopEntry(t)) =>
             (~InStop(t)' /\ UNCHANGED StopState)
       /\ (pc'[t] # pc[t] /\ webdavServer # Nil /\ StopEntry(t)) =>
             (pc'[t] = "stop_cancel" /\ UNCHANGED StopState)
       /\ (pc[t] = "stop_cancel" /\ StopCancel(t)) =>
             /\ pc'[t] = "stop_shutdown"
             /\ webdavCancel # Nil => webdavCancel \in cancelled'
             /\ UNCHANGED <<webdavServer, inst>>
       /\ (pc[t] = "stop_shutdown" /\ webdavServer # Nil /\ StopShutdown(t)) =>
             /\ pc'[t] = "stop_nil"
             /\ inst'[webdavServer] = "closed"
             /\ UNCHANGED <<webdavServer, cancelled>>
       /\ (pc[t] = "stop_nil" /\ StopNil(t)) =>
             /\ ~InStop(t)'
             /\ webdavServer' = Nil
             /\ UNCHANGED <<cancelled, inst>>]_vars

\* A logout stopped the only server there was, and the expiry callback, its
\* stop entered after that, found no handle.
C32_Witness ==
  /\ webdavServer = Nil
  /\ inst[1] = "closed"
  /\ 1 \in cancelled
  /\ \A s \in Sess \ {1} : inst[s] = "none"
  /\ pc[LogoutT(1)] = "done"
  /\ \E s \in Sess : pc[ExpiredT(s)] = "done"
  /\ ~panicked

\* startWebDAVServer of session s is between its Lock and its return.
InStart(s) ==
  InStop(StartT(s)) \/ pc[StartT(s)] \in {"load", "wait", "init", "handle"}

\* C33: a Start that finds a server handle stops that instance (context
\* cancelled, shutdown returned, handle emptied) before it loads tokens and
\* creates the new instance, all under the start/stop lock, and the old and
\* the new instance are never live together.
C33_StartStopsFirst ==
  [][\A s \in Sess :
       /\ (pc[StartT(s)] = "lock" /\ webdavServer # Nil /\ StartLock(s)) =>
             pc'[StartT(s)] = "stop_cancel"
       /\ InStart(s) => webdavMutex = StartT(s)
       /\ InStop(StartT(s)) => webdavServer' \in {webdavServer, Nil}
       /\ (pc[StartT(s)] = "stop_nil" /\ StopNil(StartT(s))) =>
             /\ pc'[StartT(s)] = "load"
             /\ \A i \in Sess \ {s} : i \in {webdavServer, webdavCancel} =>
                   (inst[i] = "closed" /\ i \in cancelled)
       /\ (pc[StartT(s)] = "load" /\ StartLoad(s)) => webdavServer = Nil
       /\ (pc[StartT(s)] = "handle" /\ StartHandle(s)) =>
             /\ webdavServer = Nil
             /\ Cardinality(Live') <= 1]_vars

\* The second start found the first server, stopped it and its own server
\* is serving; no logout and no expiry took part.
C33_Witness ==
  /\ pc[StartT(2)] = "done"
  /\ inst[1] = "closed"
  /\ 1 \in cancelled
  /\ inst[2] = "listening"
  /\ webdavServer = 2
  /\ \A k \in Logouts : pc[LogoutT(k)] = "idle"
  /\ nExpired = 0

\* AuthStatus shows Connected.
Connected == authStatus.loggedIn

\* C34: once Connected, the status leaves Connected only through the expiry
\* callback or through a logout; no other operation, in particular no login
\* attempt made while Connected, takes the status out of Connected.
C34_LeavesConnected ==
  [][(Connected /\ ~Connected') =>
        \/ \E s \in Sess : ExpiredFire(s)
        \/ \E k \in Logouts : LogoutStatus(k)]_vars

\* The process runs, the admin interface is up and AuthStatus asks for a
\* login.
AwaitsLogin ==
  /\ ~panicked
  /\ req[AdminMainT].pc = "serving"
  /\ authStatus.needsLogin
  /\ ~authStatus.loggedIn

\* No startWebDAVServer has been spawned: no login has succeeded and no
\* stored tokens were resumed.
NoStartYet == \A s \in Sess : pc[StartT(s)] = "idle"

C36_NoCallOnEmptyHandle ==
  /\ ~panicked
  /\ \A t \in Stoppers : pc[t] = "stop_shutdown" => webdavServer # Nil
  /\ \A s \in Sess : pc[ServeT(s)] = "listen" => webdavServer = s

\* The instance the Start of session s created has been stopped and a restart
\* has put the instance of another session in its place.
Superseded(s) ==
  /\ pc[StartT(s)] = "done"
  /\ inst[s] = "closed"
  /\ webdavServer \notin {s, Nil}

\* C37: the expiry callback of a superseded session does not take AuthStatus
\* out of Connected and does not stop the current file-server.
C37_SupersededExpiryIgnored ==
  [][\A s \in Sess :
       Superseded(s) =>
         /\ ExpiredFire(s) => (Connected => Connected')
         /\ ExpiredStopCheck(s) => pc'[ExpiredT(s)] = "relogin"]_vars

\* C38: after a logout request has completed, the persisted token stays
\* absent until the next successful login stores one: no token-renewed
\* callback and no other operation writes a token in between.  Checked for
\* the logouts that leave no server and no Start behind.
C38_TokenAbsentAfterLogout ==
  [][(/\ lastDone = "logout"
      /\ webdavServer = Nil
      /\ \A s \in Sess : pc[StartT(s)] \in {"idle", "done"}
      /\ tokenFile.state = "absent"
      /\ tokenFile' # tokenFile)
        => \E c \in Callers : LoginStore(c)]_vars

\* A handleAdminSetup call is between its setup check and its response, or
\* doListen has not finished resetAdminPassword and initAdminAuth.
SetupOrResetInProgress ==
  \/ req[AdminMainT].pc # "serving"
  \/ \E k \in 1..MaxSetups : req[SetupT(k)].pc \in {"parse", "memory", "token"}

\* C39: whenever no Setup or Reset is in progress, the in-memory admin
\* credential equals the persisted one (initialized iff a record is stored,
\* with the same digest and salt), so a process restart accepts exactly the
\* passwords the running process accepts.
C39_MemoryMatchesFile ==
  ~SetupOrResetInProgress =>
    /\ adminAuth.initialized = initAdminAuth(adminFile).initialized
    /\ adminAuth.passwordHash = initAdminAuth(adminFile).passwordHash
    /\ adminAuth.salt = initAdminAuth(adminFile).salt

\* The mutexes goroutine g holds.
HeldBy(g) == {mu \in LockNames : owner[mu] = g}

\* g is in a Lock call on a mutex that is held.
Waits(g) ==
  /\ ~Returned(g)
  /\ NextCall(g).op = "Lock"
  /\ owner[NextCall(g).mu] # NoOwner

\* The goroutine that holds the mutex g is about to lock.
Blocker(g) == owner[NextCall(g).mu]

\* g waits for a mutex that h holds.
WaitsFor(g, h) == Waits(g) /\ Blocker(g) = h

\* Goroutines that wait on each other in a cycle: of one (a goroutine locks
\* a mutex it holds), two or three members (there are three mutexes).
WaitCycle ==
  \E g \in Goroutines :
    /\ Waits(g)
    /\ \/ Blocker(g) = g
       \/ /\ Waits(Blocker(g))
          /\ \/ Blocker(Blocker(g)) = g
             \/ /\ Waits(Blocker(Blocker(g)))
                /\ Blocker(Blocker(Blocker(g))) = g

\* C40 as stated: no goroutine acquires one of the three mutexes while it
\* holds another, so no goroutines wait on each other in a cycle.
C40_NoLockHeldAtLock ==
  /\ \A g \in Goroutines : Cardinality(HeldBy(g)) <= 1
  /\ ~WaitCycle

\* C40, amended: the only mutex acquired while another is held is
\* authStatus.mu, by a startWebDAVServer that holds webdavMutex and runs the
\* expiry callback; a holder of authStatus.mu or adminAuth.mu waits for no
\* mutex, no goroutines wait on each other in a cycle, and as long as a
\* goroutine has not returned some goroutine can take its next step.
C40_LockOrder ==
  /\ \A g \in Goroutines :
       \/ Cardinality(HeldBy(g)) <= 1
       \/ g = "startExpired" /\ HeldBy(g) = {"webdavMutex", "authStatus.mu"}
  /\ \A g \in Goroutines :
       HeldBy(g) \cap {"authStatus.mu", "adminAuth.mu"} # {} => ~Waits(g)
  /\ ~WaitCycle
  /\ (\E g \in Goroutines : ~Returned(g))
        => \E g \in Goroutines : ~Returned(g) /\ ~Waits(g)

\* The expiry callback inside a start holds webdavMutex and authStatus.mu
\* while handleLogout waits for the one and handleStatus for the other.
C40_Witness ==
  /\ HeldBy("startExpired") = {"webdavMutex", "authStatus.mu"}
  /\ WaitsFor("logout", "startExpired")
  /\ WaitsFor("status", "startExpired")
  /\ NextCall("logout").mu = "webdavMutex"
  /\ NextCall("status").mu = "authStatus.mu"

====
